---------------------------- MODULE Spec2Model ----------------------------
(***************************************************************************)
(* darc: dynamically-atomic reference counting (src/src/lib.rs).           *)
(*                                                                         *)
(* One allocation block (Inner<T>) with its Count, and a set of threads    *)
(* that hold Rc and Arc handles to it.  Every access to the shared count   *)
(* storage is a step of its own: the `match` on the Count tag, the         *)
(* Cell get / set of Single mode, the fetch_add / fetch_sub / load of      *)
(* Multi mode, and the unsynchronized rewrite of the storage done by       *)
(* make_multi_threaded and make_single_threaded.                           *)
(*                                                                         *)
(* Handles are interchangeable, so a thread's handles are two numbers      *)
(* (rcs[t], arcs[t]).  Rc is neither Send nor Sync (NonNull field), so an  *)
(* Rc never leaves its thread; an Arc is Send and may be moved (SendArc).  *)
(* Borrowing an Arc across threads (&Arc, Sync) is not modelled.           *)
(***************************************************************************)
EXTENDS Integers, Naturals, Sequences, FiniteSets, TLC

\* ---------------------------------------------------------------- bounds

\* Number of threads.
NumThreads == 2

\* The soft ceiling MAX_REFCOUNT (isize::MAX in the source), scaled down.
MAX_REFCOUNT == 3

\* Number of clone calls explored (the program does not bound them).
MaxClones == 3

\* usize arithmetic wraps at usize::MAX + 1 = 2 * (isize::MAX + 1).
USIZE_MOD == 2 * (MAX_REFCOUNT + 1)

Threads == 1 .. NumThreads

VARIABLES
    blk,      \* the block: "none" (not yet allocated), "live", "freed"
    mode,     \* tag of Inner::count: "Single" | "Multi"
    cnt,      \* the value held by the Cell<usize> / AtomicUsize
    rcs,      \* rcs[t]: Rc handles thread t holds
    arcs,     \* arcs[t]: Arc handles thread t holds
    op,       \* op[t]: the function thread t is executing ("none" when idle)
    pc,       \* pc[t]: its position in that function
    local,    \* local[t]: the function's local `count`
    aborted,  \* process::abort() was called
    frees,    \* how many times drop(Box::from_raw(..)) ran (capped at 2)
    clones,   \* clone calls so far
    drops,    \* drop calls so far
    chk,      \* chk[t]: what the running call saw when it read the counter
    last,     \* the call that returned most recently, and its result
    trace     \* the calls so far, while they match a scenario and do not overlap

vars == <<blk, mode, cnt, rcs, arcs, op, pc, local, aborted, frees,
          clones, drops, chk, last, trace>>

\* ------------------------------------------------------- pure helpers

\* An increment whose addition is lost.
Add1Lost(c) == c % USIZE_MOD

Add1(c) == (c + 1) % USIZE_MOD

Sub1(c) == (c - 1) % USIZE_MOD

RECURSIVE SumOver(_, _)
SumOver(f, S) ==
    IF S = {} THEN 0
    ELSE LET x == CHOOSE y \in S : TRUE IN f[x] + SumOver(f, S \ {x})

\* A handle that a running call has taken by value and not yet given back
\* or released: the `rc` of Arc::from_rc, and the `self` of drop until its
\* decrement has taken effect.
InFlight(t) ==
    IF op[t] \in {"Arc::from_rc", "Arc::new"} THEN 1
    ELSE IF pc[t] \in {"dec_s_get", "dec_s_set", "dec_m_fsub"} THEN 1
    ELSE 0

\* Number of owning handles of the block.
LiveHandles == SumOver([t \in Threads |-> rcs[t] + arcs[t] + InFlight(t)], Threads)

Idle(t) == pc[t] = "idle"

AllIdle == \A t \in Threads : Idle(t)

OthersIdle(t) == \A u \in Threads \ {t} : Idle(u)


\* ------------------------------------------- the code's decisions

\* Inner::new: `count: Count::Single(1.into())`.
InitialCount == 1

\* Mutant: promotion stores a fresh count of 1, as Inner::new does.
PromotedCountReset(count) == 1

\* Mutant: promotion counts the new Arc as one more handle.
PromotedCountPlusOne(count) == Add1(count)

\* make_multi_threaded: `Count::Multi(count.into())`, the value stored.
PromotedCount(count) == count

\* Mutant: promotion rewrites the storage with the Single variant.
PromotedModeSingle == "Single"

\* make_multi_threaded: `Count::Multi(..)`, the variant stored.
PromotedMode == "Multi"

\* Mutant: the Single arm reports that the block is still shared.
SingleIsShared == FALSE

\* make_single_threaded: `Count::Single(_) => return true`.
SingleIsUnshared == TRUE

\* Mutant: the sole-owner test accepts a second owner.
IsSoleOwnerOrTwo(count) == count <= 2

\* make_single_threaded: `if count == 1`.
IsSoleOwner(count) == count = 1

\* Mutant: the demotion starts the Single count afresh.
DemotedCountZero(count) == 0

\* make_single_threaded: `Count::Single(count.into())`, the value stored.
DemotedCount(count) == count

\* Mutant: the guard fires one reference early.
OverflowsAtCeiling(count) == count >= MAX_REFCOUNT

\* Mutant: the guard fires one reference late.
OverflowsLate(count) == count > MAX_REFCOUNT + 1

\* increment: `if count > MAX_REFCOUNT { abort(); }`.
Overflows(count) == count > MAX_REFCOUNT

\* Mutant: the decrement that reaches 0 goes on without the acquire fence.
NeedsFenceNever(count) == FALSE

\* decrement: `if count == 0 { atomic::fence(Ordering::Acquire); }`.
NeedsFence(count) == count = 0

\* Mutant: the block is freed one drop early.
IsLastRefEarly(count) == count <= 1

\* Mutant: the test for the last reference reads the count before the decrement.
IsLastRefStale(count) == count = 1

\* Rc::drop: `if self.inner().decrement() == 0`.
IsLastRef(count) == count = 0

\* ------------------------------------------------------ observers

NoChk == [m |-> "-", c |-> 0, h |-> 0]

\* What a call sees at the step where it reads the counter.
Seen == [m |-> mode, c |-> cnt, h |-> LiveHandles]

\* The record of a call that returned: `ret` is the boolean of Rc::unshare,
\* and for the other calls whether the call returned (FALSE: it aborted);
\* m0, c0, h0 are the mode, the count and the number of owning handles the
\* call saw when it read the counter; rt marks an Rc::from_arc that undid
\* the Arc::from_rc the same thread had just completed.
Returned(name, t, ret, seen, rt) ==
    [op |-> name, t |-> t, ret |-> ret, rt |-> rt,
     m0 |-> seen.m, c0 |-> seen.c, h0 |-> seen.h]

NoCall == Returned("none", 0, TRUE, NoChk, FALSE)

\* Section 8, last scenario: clone twice, drop one, attempt_unshare.
ScenarioUnpromoted ==
    <<"Rc::new", "Rc::clone", "Rc::clone", "Rc::drop", "Rc::unshare">>

\* Section 8, first scenario, the promoted handle dropped.
ScenarioPromotedDropArc ==
    <<"Rc::new", "Rc::clone", "Arc::from_rc", "Arc::drop", "Rc::unshare", "Rc::drop">>

\* Section 8, first scenario, the plain handle dropped and the Arc unwrapped.
ScenarioPromotedDropRc ==
    <<"Rc::new", "Rc::clone", "Arc::from_rc", "Rc::drop", "Rc::from_arc",
      "Rc::unshare", "Rc::drop">>

Scenarios == {ScenarioUnpromoted, ScenarioPromotedDropArc, ScenarioPromotedDropRc}

Off == <<"off">>

IsScenarioPrefix(s) ==
    \E sc \in Scenarios : Len(s) <= Len(sc) /\ SubSeq(sc, 1, Len(s)) = s

\* The trace after thread t calls `name`: it is kept only while the calls
\* follow a scenario and no call starts while another thread is inside one.
Observe(t, name) ==
    IF trace # Off /\ OthersIdle(t) /\ IsScenarioPrefix(Append(trace, name))
    THEN Append(trace, name)
    ELSE Off

\* ----------------------------------------------------------- Init

Init ==
    /\ blk = "none"
    /\ mode = "Single"
    /\ cnt = 0
    /\ rcs = [t \in Threads |-> 0]
    /\ arcs = [t \in Threads |-> 0]
    /\ op = [t \in Threads |-> "none"]
    /\ pc = [t \in Threads |-> "idle"]
    /\ local = [t \in Threads |-> 0]
    /\ aborted = FALSE
    /\ frees = 0
    /\ clones = 0
    /\ drops = 0
    /\ chk = [t \in Threads |-> NoChk]
    /\ last = NoCall
    /\ trace = <<>>

\* A thread may start a call.
CanCall(t) == ~aborted /\ Idle(t)

\* A thread is inside a call, at position p.
At(t, p) == ~aborted /\ pc[t] = p

\* ------------------------------------------------- Rc::new, Arc::new

\* Rc::new: Box a fresh Inner with Count::Single(1).
RcNew(t) ==
    /\ CanCall(t)
    /\ blk = "none"
    /\ blk' = "live"
    /\ mode' = "Single"
    /\ cnt' = InitialCount
    /\ rcs' = [rcs EXCEPT ![t] = 1]
    /\ last' = Returned("Rc::new", t, TRUE, NoChk, FALSE)
    /\ trace' = Observe(t, "Rc::new")
    /\ UNCHANGED <<arcs, op, pc, local, aborted, frees, clones, drops, chk>>

\* Arc::new: Arc::from_rc(Rc::new(data)); the step ends after the `match`
\* of make_multi_threaded, which finds the fresh Single count.
ArcNew(t) ==
    /\ CanCall(t)
    /\ blk = "none"
    /\ blk' = "live"
    /\ mode' = "Single"
    /\ cnt' = InitialCount
    /\ op' = [op EXCEPT ![t] = "Arc::new"]
    /\ pc' = [pc EXCEPT ![t] = "mm_write"]
    /\ local' = [local EXCEPT ![t] = InitialCount]
    /\ chk' = [chk EXCEPT ![t] = [m |-> "Single", c |-> InitialCount, h |-> 1]]
    /\ trace' = Observe(t, "Arc::new")
    /\ UNCHANGED <<rcs, arcs, aborted, frees, clones, drops, last>>

\* ------------------------------------------------------------ clone

\* The `match` of Inner::increment (clone calls are explored up to MaxClones).
IncMatch(t, name) ==
    /\ clones < MaxClones
    /\ clones' = clones + 1
    /\ op' = [op EXCEPT ![t] = name]
    /\ pc' = [pc EXCEPT ![t] = IF mode = "Single" THEN "inc_s_get" ELSE "inc_m_faa"]
    /\ trace' = Observe(t, name)
    /\ UNCHANGED <<blk, mode, cnt, rcs, arcs, local, aborted, frees, drops, chk, last>>

\* Rc::clone: self.inner().increment().
RcClone(t) ==
    /\ CanCall(t)
    /\ rcs[t] > 0
    /\ IncMatch(t, "Rc::clone")

\* Arc::clone: Rc::clone(&self.inner).
ArcClone(t) ==
    /\ CanCall(t)
    /\ arcs[t] > 0
    /\ IncMatch(t, "Arc::clone")

\* Single: `let count = cell.get() + 1`.
IncSingleGet(t) ==
    /\ At(t, "inc_s_get")
    /\ local' = [local EXCEPT ![t] = Add1(cnt)]
    /\ pc' = [pc EXCEPT ![t] = "inc_s_set"]
    /\ UNCHANGED <<blk, mode, cnt, rcs, arcs, op, aborted, frees, clones, drops,
                   chk, last, trace>>

\* Single: `cell.set(count)`.
IncSingleSet(t) ==
    /\ At(t, "inc_s_set")
    /\ cnt' = local[t]
    /\ pc' = [pc EXCEPT ![t] = "inc_check"]
    /\ UNCHANGED <<blk, mode, rcs, arcs, op, local, aborted, frees, clones, drops,
                   chk, last, trace>>

\* Multi: `atom.fetch_add(1, Ordering::Relaxed) + 1`.
IncMultiFetchAdd(t) ==
    /\ At(t, "inc_m_faa")
    /\ cnt' = Add1(cnt)
    /\ local' = [local EXCEPT ![t] = Add1(cnt)]
    /\ pc' = [pc EXCEPT ![t] = "inc_check"]
    /\ UNCHANGED <<blk, mode, rcs, arcs, op, aborted, frees, clones, drops,
                   chk, last, trace>>

\* `if count > MAX_REFCOUNT { abort(); }`, else the new handle is returned.
IncCheck(t) ==
    /\ At(t, "inc_check")
    /\ IF Overflows(local[t])
       THEN /\ aborted' = TRUE
            /\ last' = Returned(op[t], t, FALSE, NoChk, FALSE)
            /\ UNCHANGED <<rcs, arcs, op, pc, local>>
       ELSE /\ rcs' = [rcs EXCEPT ![t] = @ + (IF op[t] = "Rc::clone" THEN 1 ELSE 0)]
            /\ arcs' = [arcs EXCEPT ![t] = @ + (IF op[t] = "Arc::clone" THEN 1 ELSE 0)]
            /\ last' = Returned(op[t], t, TRUE, NoChk, FALSE)
            /\ op' = [op EXCEPT ![t] = "none"]
            /\ pc' = [pc EXCEPT ![t] = "idle"]
            /\ local' = [local EXCEPT ![t] = 0]
            /\ UNCHANGED aborted
    /\ UNCHANGED <<blk, mode, cnt, frees, clones, drops, chk, trace>>

\* ------------------------------------------------------------- drop

\* The `match` of Inner::decrement, entered from Rc::drop.
DecMatch(t, name) ==
    /\ drops' = drops + 1
    /\ op' = [op EXCEPT ![t] = name]
    /\ pc' = [pc EXCEPT ![t] = IF mode = "Single" THEN "dec_s_get" ELSE "dec_m_fsub"]
    /\ trace' = Observe(t, name)
    /\ UNCHANGED <<blk, mode, cnt, local, aborted, frees, clones, chk, last>>

\* Rc::drop: self.inner().decrement().
RcDrop(t) ==
    /\ CanCall(t)
    /\ rcs[t] > 0
    /\ rcs' = [rcs EXCEPT ![t] = @ - 1]
    /\ UNCHANGED arcs
    /\ DecMatch(t, "Rc::drop")

\* An Arc has no Drop of its own: dropping it drops its field `inner: Rc<T>`.
ArcDrop(t) ==
    /\ CanCall(t)
    /\ arcs[t] > 0
    /\ arcs' = [arcs EXCEPT ![t] = @ - 1]
    /\ UNCHANGED rcs
    /\ DecMatch(t, "Arc::drop")

\* Single: `let count = cell.get() - 1`.
DecSingleGet(t) ==
    /\ At(t, "dec_s_get")
    /\ local' = [local EXCEPT ![t] = Sub1(cnt)]
    /\ pc' = [pc EXCEPT ![t] = "dec_s_set"]
    /\ UNCHANGED <<blk, mode, cnt, rcs, arcs, op, aborted, frees, clones, drops,
                   chk, last, trace>>

\* Single: `cell.set(count)`.
DecSingleSet(t) ==
    /\ At(t, "dec_s_set")
    /\ cnt' = local[t]
    /\ pc' = [pc EXCEPT ![t] = "drop_check"]
    /\ UNCHANGED <<blk, mode, rcs, arcs, op, local, aborted, frees, clones, drops,
                   chk, last, trace>>

\* Multi: `atom.fetch_sub(1, Ordering::Release) - 1`.
DecMultiFetchSub(t) ==
    /\ At(t, "dec_m_fsub")
    /\ cnt' = Sub1(cnt)
    /\ local' = [local EXCEPT ![t] = Sub1(cnt)]
    /\ pc' = [pc EXCEPT ![t] = IF NeedsFence(Sub1(cnt)) THEN "dec_fence" ELSE "drop_check"]
    /\ UNCHANGED <<blk, mode, rcs, arcs, op, aborted, frees, clones, drops,
                   chk, last, trace>>

\* Multi, count 0: `atomic::fence(Ordering::Acquire)`.
DecFence(t) ==
    /\ At(t, "dec_fence")
    /\ pc' = [pc EXCEPT ![t] = "drop_check"]
    /\ UNCHANGED <<blk, mode, cnt, rcs, arcs, op, local, aborted, frees, clones,
                   drops, chk, last, trace>>

\* Rc::drop: `if .. == 0 { drop(Box::from_raw(..)) }`.
DropCheck(t) ==
    /\ At(t, "drop_check")
    /\ IF IsLastRef(local[t])
       THEN /\ blk' = "freed"
            /\ frees' = IF frees < 2 THEN frees + 1 ELSE 2
       ELSE UNCHANGED <<blk, frees>>
    /\ last' = Returned(op[t], t, TRUE, NoChk, FALSE)
    /\ op' = [op EXCEPT ![t] = "none"]
    /\ pc' = [pc EXCEPT ![t] = "idle"]
    /\ local' = [local EXCEPT ![t] = 0]
    /\ UNCHANGED <<mode, cnt, rcs, arcs, aborted, clones, drops, chk, trace>>

\* ---------------------------------------- Arc::from_rc, Rc::from_arc

\* Arc::from_rc: the `match` of make_multi_threaded.  On Multi it returns
\* and the Rc is wrapped; on Single it reads the Cell.
ArcFromRc(t) ==
    /\ CanCall(t)
    /\ rcs[t] > 0
    /\ rcs' = [rcs EXCEPT ![t] = @ - 1]
    /\ trace' = Observe(t, "Arc::from_rc")
    /\ IF mode = "Single"
       THEN /\ op' = [op EXCEPT ![t] = "Arc::from_rc"]
            /\ pc' = [pc EXCEPT ![t] = "mm_write"]
            /\ local' = [local EXCEPT ![t] = cnt]
            /\ chk' = [chk EXCEPT ![t] = Seen]
            /\ UNCHANGED <<arcs, last>>
       ELSE /\ arcs' = [arcs EXCEPT ![t] = @ + 1]
            /\ last' = Returned("Arc::from_rc", t, TRUE, Seen, FALSE)
            /\ UNCHANGED <<op, pc, local, chk>>
    /\ UNCHANGED <<blk, mode, cnt, aborted, frees, clones, drops>>

\* make_multi_threaded: `*self.count.get() = Count::Multi(count.into())`,
\* then `Self { inner: rc }`.
MakeMultiWrite(t) ==
    /\ At(t, "mm_write")
    /\ mode' = PromotedMode
    /\ cnt' = PromotedCount(local[t])
    /\ arcs' = [arcs EXCEPT ![t] = @ + 1]
    /\ last' = Returned(op[t], t, TRUE, chk[t], FALSE)
    /\ op' = [op EXCEPT ![t] = "none"]
    /\ pc' = [pc EXCEPT ![t] = "idle"]
    /\ local' = [local EXCEPT ![t] = 0]
    /\ chk' = [chk EXCEPT ![t] = NoChk]
    /\ UNCHANGED <<blk, rcs, aborted, frees, clones, drops, trace>>

\* The call of Rc::from_arc by t undoes the Arc::from_rc that t completed
\* as the latest call, with no other thread inside a call.
UndoesFromRc(t) ==
    /\ last.op = "Arc::from_rc"
    /\ last.t = t
    /\ OthersIdle(t)

\* Rc::from_arc: `arc.inner`.
RcFromArc(t) ==
    /\ CanCall(t)
    /\ arcs[t] > 0
    /\ arcs' = [arcs EXCEPT ![t] = @ - 1]
    /\ rcs' = [rcs EXCEPT ![t] = @ + 1]
    /\ last' = IF UndoesFromRc(t)
               THEN Returned("Rc::from_arc", t, TRUE,
                             [m |-> last.m0, c |-> last.c0, h |-> last.h0], TRUE)
               ELSE Returned("Rc::from_arc", t, TRUE, Seen, FALSE)
    /\ trace' = Observe(t, "Rc::from_arc")
    /\ UNCHANGED <<blk, mode, cnt, op, pc, local, aborted, frees, clones, drops, chk>>

\* ------------------------------------------------------ Rc::unshare

\* Rc::unshare: the `match` of make_single_threaded; `Single(_) => return true`.
RcUnshare(t) ==
    /\ CanCall(t)
    /\ rcs[t] > 0
    /\ trace' = Observe(t, "Rc::unshare")
    /\ IF mode = "Single"
       THEN /\ last' = Returned("Rc::unshare", t, SingleIsUnshared, Seen, FALSE)
            /\ UNCHANGED <<op, pc>>
       ELSE /\ op' = [op EXCEPT ![t] = "Rc::unshare"]
            /\ pc' = [pc EXCEPT ![t] = "ms_load"]
            /\ UNCHANGED last
    /\ UNCHANGED <<blk, mode, cnt, rcs, arcs, local, aborted, frees, clones, drops, chk>>

\* A make_single_threaded that writes the Single tag before it has looked at
\* the count, and so demotes a counter it then refuses to demote.
MakeSingleLoadFlipsFirst(t) ==
    /\ At(t, "ms_load")
    /\ IF cnt = 1
       THEN /\ local' = [local EXCEPT ![t] = cnt]
            /\ chk' = [chk EXCEPT ![t] = Seen]
            /\ pc' = [pc EXCEPT ![t] = "ms_write"]
            /\ UNCHANGED <<op, last, mode>>
       ELSE /\ last' = Returned("Rc::unshare", t, FALSE, Seen, FALSE)
            /\ op' = [op EXCEPT ![t] = "none"]
            /\ pc' = [pc EXCEPT ![t] = "idle"]
            /\ mode' = "Single"
            /\ UNCHANGED <<local, chk>>
    /\ UNCHANGED <<blk, cnt, rcs, arcs, aborted, frees, clones, drops, trace>>

\* make_single_threaded: `atom.load(Ordering::SeqCst)` and `if count == 1`;
\* the else branch returns false.
MakeSingleLoad(t) ==
    /\ At(t, "ms_load")
    /\ IF IsSoleOwner(cnt)
       THEN /\ local' = [local EXCEPT ![t] = cnt]
            /\ chk' = [chk EXCEPT ![t] = Seen]
            /\ pc' = [pc EXCEPT ![t] = "ms_write"]
            /\ UNCHANGED <<op, last>>
       ELSE /\ last' = Returned("Rc::unshare", t, FALSE, Seen, FALSE)
            /\ op' = [op EXCEPT ![t] = "none"]
            /\ pc' = [pc EXCEPT ![t] = "idle"]
            /\ UNCHANGED <<local, chk>>
    /\ UNCHANGED <<blk, mode, cnt, rcs, arcs, aborted, frees, clones, drops, trace>>

\* make_single_threaded: `*self.count.get() = Count::Single(count.into())`; true.
MakeSingleWrite(t) ==
    /\ At(t, "ms_write")
    /\ mode' = "Single"
    /\ cnt' = DemotedCount(local[t])
    /\ last' = Returned("Rc::unshare", t, TRUE, chk[t], FALSE)
    /\ op' = [op EXCEPT ![t] = "none"]
    /\ pc' = [pc EXCEPT ![t] = "idle"]
    /\ local' = [local EXCEPT ![t] = 0]
    /\ chk' = [chk EXCEPT ![t] = NoChk]
    /\ UNCHANGED <<blk, rcs, arcs, aborted, frees, clones, drops, trace>>

\* ----------------------------------------------------- deref, send

\* Rc::deref / Arc::deref: `&self.inner().data`; reads no counter.
Deref(t) ==
    /\ CanCall(t)
    /\ rcs[t] + arcs[t] > 0
    /\ last' = Returned("deref", t, TRUE, NoChk, FALSE)
    /\ trace' = Observe(t, "deref")
    /\ UNCHANGED <<blk, mode, cnt, rcs, arcs, op, pc, local, aborted, frees,
                   clones, drops, chk>>

\* `unsafe impl Send for Arc<T>`: thread t moves one of its Arcs to thread u.
SendArc(t, u) ==
    /\ CanCall(t)
    /\ u # t
    /\ arcs[t] > 0
    /\ arcs' = [arcs EXCEPT ![t] = @ - 1, ![u] = @ + 1]
    /\ UNCHANGED <<blk, mode, cnt, rcs, op, pc, local, aborted, frees, clones,
                   drops, chk, last, trace>>

\* ------------------------------------------------------------ Next

Next ==
    \E t \in Threads :
        \/ RcNew(t)
        \/ ArcNew(t)
        \/ RcClone(t)
        \/ ArcClone(t)
        \/ IncSingleGet(t)
        \/ IncSingleSet(t)
        \/ IncMultiFetchAdd(t)
        \/ IncCheck(t)
        \/ RcDrop(t)
        \/ ArcDrop(t)
        \/ DecSingleGet(t)
        \/ DecSingleSet(t)
        \/ DecMultiFetchSub(t)
        \/ DecFence(t)
        \/ DropCheck(t)
        \/ ArcFromRc(t)
        \/ MakeMultiWrite(t)
        \/ RcFromArc(t)
        \/ RcUnshare(t)
        \/ MakeSingleLoad(t)
        \/ MakeSingleWrite(t)
        \/ Deref(t)
        \/ \E u \in Threads : SendArc(t, u)

Spec == Init /\ [][Next]_vars

\* ================================================================ claims

\* Positions of a call from which the call still reads or writes the block.
TouchesBlock(t) ==
    pc[t] \in {"inc_s_get", "inc_s_set", "inc_m_faa", "dec_s_get", "dec_s_set",
               "dec_m_fsub", "mm_write", "ms_load", "ms_write"}

\* The step frees the block.
FreesBlock == frees' # frees \/ (blk' = "freed" /\ blk # "freed")

\* C1: a block with N owning handles in total (the original and its clones,
\* Rc or Arc) is freed exactly once, at the N-th drop and at no earlier
\* drop, never twice, and only by the last step of Rc::drop.
C1_FreedOnceAtLastDrop ==
    /\ [](/\ frees <= 1
          /\ (blk = "freed") <=> (frees = 1)
          /\ blk = "freed" => (drops = clones + 1 /\ LiveHandles = 0)
          /\ (blk = "live" /\ AllIdle /\ ~aborted) => drops < clones + 1)
    /\ [][FreesBlock => \E t \in Threads :
                            /\ DropCheck(t)
                            /\ op[t] \in {"Rc::drop", "Arc::drop"}
                            /\ drops = clones + 1]_vars

\* C1 witness: MaxClones + 1 handles were made and dropped, Rc and Arc
\* among them, and the last drop freed the block.
C1_Witness ==
    /\ blk = "freed"
    /\ frees = 1
    /\ clones = MaxClones
    /\ drops = MaxClones + 1
    /\ last.op = "Rc::drop"
    /\ mode = "Multi"

\* C2: threads that clone and drop Arcs concurrently, under every
\* interleaving of the fetch_add / fetch_sub steps: the block is freed at
\* most once, a freed block has no live handle left on any thread, and no
\* thread is at a step that would still touch the block; once every handle
\* is dropped and every drop has returned, the block has been freed.
C2_ConcurrentArcFreedOnce ==
    /\ frees <= 1
    /\ (blk # "none" /\ AllIdle /\ LiveHandles = 0 /\ ~aborted) => frees = 1
    /\ blk = "freed" =>
          \A t \in Threads :
              /\ rcs[t] = 0
              /\ arcs[t] = 0
              /\ ~TouchesBlock(t)
    /\ \A t \in Threads :
          (pc[t] = "dec_fence" \/ (pc[t] = "drop_check" /\ local[t] = 0)) =>
              \A u \in Threads \ {t} : rcs[u] + arcs[u] = 0 /\ ~TouchesBlock(u)

\* C2 witness: every clone call was made, two threads dropped Arcs
\* concurrently, one of them freed the block while the other is still
\* inside its own drop.
C2_Witness ==
    /\ blk = "freed"
    /\ frees = 1
    /\ mode = "Multi"
    /\ clones = MaxClones
    /\ last.op = "Arc::drop"
    /\ \E t \in Threads \ {last.t} : op[t] = "Arc::drop" /\ pc[t] = "drop_check"

\* C3: while an Arc to the block is live, the counter is in Multi mode.
C3_ArcImpliesMulti ==
    (\E t \in Threads :
        \/ arcs[t] > 0
        \/ (op[t] \in {"Arc::clone", "Arc::drop"} /\ TouchesBlock(t)))
    => mode = "Multi"

\* C3 witness: Rc::unshare was refused while an Arc is live.
C3_Witness ==
    /\ \E t \in Threads : arcs[t] > 0
    /\ last.op = "Rc::unshare"
    /\ ~last.ret
    /\ mode = "Multi"

\* C4 as stated: Rc::unshare returns true if and only if exactly one owning
\* handle exists at the time of its check.
C4_Original ==
    last.op = "Rc::unshare" => (last.ret <=> last.h0 = 1)

\* C4: Rc::unshare returns true if and only if, at its check, the counter
\* is already in Single mode (whatever the count) or exactly one owning
\* handle exists; it returns false exactly when the counter is in Multi
\* mode and two or more owning handles exist, and the count it loads in
\* Multi mode is 1 exactly when one owning handle exists.
C4_UnshareTrueIffSingleOrSole ==
    last.op = "Rc::unshare" =>
        /\ last.ret <=> (last.m0 = "Single" \/ last.h0 = 1)
        /\ ~last.ret <=> (last.m0 = "Multi" /\ last.h0 >= 2)
        /\ last.m0 = "Multi" => ((last.c0 = 1) <=> (last.h0 = 1))

\* C4 witness: an Rc::unshare found Multi and one owning handle, and
\* returned true.
C4_Witness ==
    /\ last.op = "Rc::unshare"
    /\ last.ret
    /\ last.m0 = "Multi"
    /\ last.h0 = 1
    /\ mode = "Single"

Prefix(sc, n) == SubSeq(sc, 1, n)

\* C5 as stated: Rc::new, clone, clone, drop, with no promotion: Rc::unshare
\* returns false and leaves mode and count as they were.
C5_Original ==
    (trace = ScenarioUnpromoted /\ AllIdle) =>
        /\ last.op = "Rc::unshare"
        /\ ~last.ret
        /\ mode = "Single"
        /\ cnt = 2

\* C5: Rc::new, clone, clone (count 3), drop (count 2), with no promotion:
\* Rc::unshare on a remaining handle returns true (the counter is already
\* Single) and leaves the mode Single and the count 2.
C5_UnpromotedUnshareTrue ==
    /\ (trace = Prefix(ScenarioUnpromoted, 3) /\ AllIdle) =>
          (mode = "Single" /\ cnt = 3 /\ LiveHandles = 3)
    /\ (trace = Prefix(ScenarioUnpromoted, 4) /\ AllIdle) =>
          (mode = "Single" /\ cnt = 2 /\ LiveHandles = 2)
    /\ trace = ScenarioUnpromoted =>
          /\ AllIdle
          /\ last.op = "Rc::unshare"
          /\ last.ret
          /\ last.m0 = "Single"
          /\ last.c0 = 2
          /\ mode = "Single"
          /\ cnt = 2
          /\ LiveHandles = 2

\* C5 witness: the scenario has run to its end.
C5_Witness ==
    /\ trace = ScenarioUnpromoted
    /\ last.op = "Rc::unshare"
    /\ cnt = 2

\* The scenario of C6 up to its n-th call has run, in either variant.
PromotedScenarioAt(sc, n) == trace = Prefix(sc, n) /\ AllIdle

\* C6: Rc::new, clone (count 2, Single), Arc::from_rc (Multi, count 2),
\* drop of one handle (count 1), Rc::unshare on the remaining handle
\* (unwrapped with Rc::from_arc when it is the Arc) returns true and the
\* counter is Single with count 1; dropping that handle frees the block.
C6_PromoteDropUnshareFree ==
    \A sc \in {ScenarioPromotedDropArc, ScenarioPromotedDropRc} :
        LET u == IF sc = ScenarioPromotedDropArc THEN 5 ELSE 6 IN
        /\ PromotedScenarioAt(sc, 2) => (mode = "Single" /\ cnt = 2)
        /\ PromotedScenarioAt(sc, 3) =>
              (mode = "Multi" /\ cnt = 2 /\ last.op = "Arc::from_rc" /\ LiveHandles = 2)
        /\ \A n \in 4 .. (u - 1) :
              PromotedScenarioAt(sc, n) =>
                  (mode = "Multi" /\ cnt = 1 /\ blk = "live" /\ LiveHandles = 1)
        /\ PromotedScenarioAt(sc, u) =>
              /\ last.op = "Rc::unshare"
              /\ last.ret
              /\ mode = "Single"
              /\ cnt = 1
              /\ blk = "live"
        /\ PromotedScenarioAt(sc, u + 1) =>
              (blk = "freed" /\ frees = 1 /\ LiveHandles = 0)

\* C6 witness: the scenario has run to its end, the Arc unwrapped on the way.
C6_Witness ==
    /\ trace = ScenarioPromotedDropRc
    /\ AllIdle
    /\ blk = "freed"

\* The steps inside a call of thread t (every step but the call itself).
StepOf(t) ==
    \/ IncSingleGet(t)
    \/ IncSingleSet(t)
    \/ IncMultiFetchAdd(t)
    \/ IncCheck(t)
    \/ DecSingleGet(t)
    \/ DecSingleSet(t)
    \/ DecMultiFetchSub(t)
    \/ DecFence(t)
    \/ DropCheck(t)
    \/ MakeMultiWrite(t)
    \/ MakeSingleLoad(t)
    \/ MakeSingleWrite(t)

\* The largest number of steps a call at position p still takes.
StepsLeft(p) ==
    CASE p \in {"inc_s_get", "dec_s_get", "dec_m_fsub"} -> 3
      [] p \in {"inc_s_set", "inc_m_faa", "dec_s_set", "dec_fence", "ms_load"} -> 2
      [] p \in {"inc_check", "drop_check", "mm_write", "ms_write"} -> 1
      [] OTHER -> 0

\* C7 as stated: construct, clone, drop, dereference and promote never
\* terminate the process.
C7_Original == ~aborted

\* C7: construct, drop, dereference and promote are total, and clone is
\* total up to the ceiling: a call never waits (its next step is always
\* enabled), every step brings it closer to its return, and the process is
\* terminated by one step only, the overflow check of a clone whose
\* resulting count exceeds MAX_REFCOUNT; a clone whose resulting count is
\* at most MAX_REFCOUNT returns.
C7_TotalExceptCloneOverflow ==
    /\ [](\A t \in Threads :
             /\ (~aborted /\ ~Idle(t)) => ENABLED StepOf(t)
             /\ (~aborted /\ Idle(t) /\ rcs[t] > 0) =>
                   (ENABLED RcDrop(t) /\ ENABLED ArcFromRc(t) /\ ENABLED Deref(t))
             /\ (~aborted /\ Idle(t) /\ arcs[t] > 0) =>
                   (ENABLED ArcDrop(t) /\ ENABLED Deref(t))
             /\ (~aborted /\ Idle(t) /\ blk = "none") =>
                   (ENABLED RcNew(t) /\ ENABLED ArcNew(t)))
    /\ [][\A t \in Threads :
             /\ (~Idle(t) /\ pc'[t] # pc[t]) => StepsLeft(pc'[t]) < StepsLeft(pc[t])
             /\ (IncCheck(t) /\ local[t] <= MAX_REFCOUNT) => (~aborted' /\ pc'[t] = "idle")
             /\ (DropCheck(t) \/ MakeMultiWrite(t) \/ RcNew(t) \/ Deref(t)
                    \/ (ArcFromRc(t) /\ mode = "Multi")) =>
                   (~aborted' /\ pc'[t] = "idle" /\ last'.ret /\ last'.t = t)]_vars
    /\ [][aborted' # aborted =>
             \E t \in Threads :
                 /\ IncCheck(t)
                 /\ op[t] \in {"Rc::clone", "Arc::clone"}
                 /\ local[t] > MAX_REFCOUNT]_vars

\* C7 witness: an Rc::clone in Single mode took the count over the ceiling
\* and terminated the process.
C7_Witness ==
    /\ aborted
    /\ mode = "Single"
    /\ last.op = "Rc::clone"
    /\ ~last.ret
    /\ cnt = MAX_REFCOUNT + 1

\* C8: in either mode a clone whose resulting count exceeds MAX_REFCOUNT
\* aborts and hands out no handle, a clone whose resulting count is at most
\* MAX_REFCOUNT returns one handle, and the handles of a block never number
\* more than MAX_REFCOUNT, also with clones running on several threads.
C8_OverflowGuard ==
    /\ [](/\ LiveHandles <= MAX_REFCOUNT
          /\ aborted => \E t \in Threads : pc[t] = "inc_check" /\ local[t] > MAX_REFCOUNT)
    /\ [][\A t \in Threads :
             IncCheck(t) =>
                 IF local[t] > MAX_REFCOUNT
                 THEN aborted' /\ rcs' = rcs /\ arcs' = arcs /\ ~last'.ret
                 ELSE /\ ~aborted'
                      /\ rcs'[t] + arcs'[t] = rcs[t] + arcs[t] + 1
                      /\ last'.ret]_vars

\* C8 witness: two threads clone concurrently in Multi mode; the clone that
\* reached the ceiling is still inside its call when the clone that went
\* over it aborts the process.
C8_Witness ==
    /\ aborted
    /\ mode = "Multi"
    /\ ~last.ret
    /\ \E t \in Threads : \E u \in Threads \ {t} :
          /\ pc[t] = "inc_check" /\ local[t] = MAX_REFCOUNT + 1
          /\ pc[u] = "inc_check" /\ local[u] = MAX_REFCOUNT

\* C9: Arc::from_rc always succeeds and leaves the counter in Multi mode
\* with the count it held: from Single the count is carried over, and on a
\* Multi counter the call changes neither count nor mode.
C9_PromotionKeepsCount ==
    /\ [](\A t \in Threads :
             /\ (~aborted /\ Idle(t) /\ rcs[t] > 0) => ENABLED ArcFromRc(t)
             /\ (~aborted /\ pc[t] = "mm_write") => ENABLED MakeMultiWrite(t))
    /\ [][\A t \in Threads :
             /\ ArcFromRc(t) =>
                   /\ UNCHANGED <<mode, cnt>>
                   /\ mode = "Multi" =>
                         (pc'[t] = "idle" /\ arcs'[t] = arcs[t] + 1 /\ last'.ret)
                   /\ mode = "Single" => (pc'[t] = "mm_write" /\ local'[t] = cnt)
             /\ MakeMultiWrite(t) =>
                   /\ mode' = "Multi"
                   /\ cnt' = cnt
                   /\ cnt' = chk[t].c
                   /\ pc'[t] = "idle"
                   /\ arcs'[t] = arcs[t] + 1
                   /\ last'.ret]_vars

\* C9 witness: an Arc::from_rc on a counter that an earlier promotion had
\* made Multi returned, with two handles before and after.
C9_Witness ==
    /\ last.op = "Arc::from_rc"
    /\ last.m0 = "Multi"
    /\ last.c0 = 2
    /\ mode = "Multi"
    /\ cnt = 2

\* C10: Rc::from_arc(Arc::from_rc(h)) gives a handle to the same block with
\* the count as it was before the promotion and the mode Multi; Rc::from_arc
\* alone changes neither count nor mode.
C10_RoundTrip ==
    [][\A t \in Threads :
          RcFromArc(t) =>
              /\ UNCHANGED <<mode, cnt, blk>>
              /\ rcs'[t] = rcs[t] + 1
              /\ arcs'[t] = arcs[t] - 1
              /\ UndoesFromRc(t) =>
                    /\ mode' = "Multi"
                    /\ cnt' = last.c0
                    /\ LiveHandles' = last.h0
                    /\ last'.rt]_vars

\* C10 witness: a handle of a Single counter with count 2 was promoted and
\* unwrapped again.
C10_Witness ==
    /\ last.op = "Rc::from_arc"
    /\ last.rt
    /\ last.m0 = "Single"
    /\ last.c0 = 2
    /\ mode = "Multi"
    /\ cnt = 2

\* The step is the one with which thread t's Rc::unshare returns.
UnshareReturns(t) ==
    /\ \/ RcUnshare(t)
       \/ MakeSingleLoad(t)
       \/ MakeSingleWrite(t)
    /\ pc'[t] = "idle"

\* C11: a refused demotion has no effect. The step with which Rc::unshare
\* returns false happens on a Multi counter and leaves the mode Multi and the
\* count, the block and the handles as they were, as does the step that
\* started the call; it does not abort. Rc::unshare is the only operation that
\* returns a failure, and it reports it as the boolean alone.
C11_RefusedDemotionNoEffect ==
    /\ [][\A t \in Threads :
             /\ (UnshareReturns(t) /\ ~last'.ret) =>
                    /\ last'.op = "Rc::unshare"
                    /\ mode = "Multi"
                    /\ mode' = "Multi"
                    /\ cnt' = cnt
                    /\ cnt' = last'.c0
                    /\ cnt' # 1
                    /\ UNCHANGED <<blk, rcs, arcs, aborted, frees>>
             /\ (RcUnshare(t) /\ mode = "Multi") =>
                    UNCHANGED <<blk, mode, cnt, rcs, arcs, aborted, frees>>]_vars
    /\ []((~aborted /\ ~last.ret) => last.op = "Rc::unshare")

\* C11 witness: Rc::unshare has just returned false on a Multi counter with
\* two handles, and the counter is as the call found it.
C11_Witness ==
    /\ last.op = "Rc::unshare"
    /\ ~last.ret
    /\ last.m0 = "Multi"
    /\ last.c0 = 2
    /\ last.h0 = 2
    /\ mode = "Multi"
    /\ cnt = 2
    /\ ~aborted

\* C12: Rc::unshare on a counter that is already Single returns true at once,
\* whatever the count, and changes neither count nor mode nor any handle; and
\* every Rc::unshare returns exactly "the counter is Single after the call".
C12_UnshareOnSingleIsNoOp ==
    [][\A t \in Threads :
          /\ (RcUnshare(t) /\ mode = "Single") =>
                 /\ last'.op = "Rc::unshare"
                 /\ last'.t = t
                 /\ last'.ret
                 /\ last'.c0 = cnt
                 /\ UNCHANGED <<blk, mode, cnt, rcs, arcs, op, pc, aborted, frees>>
          /\ UnshareReturns(t) => (last'.ret <=> mode' = "Single")]_vars

\* C12 witness: Rc::unshare returned true on a Single counter whose count is
\* at the ceiling, well above 1, and the counter is unchanged.
C12_Witness ==
    /\ last.op = "Rc::unshare"
    /\ last.ret
    /\ last.m0 = "Single"
    /\ last.c0 = MAX_REFCOUNT
    /\ last.h0 = MAX_REFCOUNT
    /\ mode = "Single"
    /\ cnt = MAX_REFCOUNT

\* C13: every change of the mode from Multi to Single happens in a state
\* whose count is exactly 1, at the write of the mode itself and not only at
\* the load before it: the step is the write of make_single_threaded by the
\* thread that holds the one handle, and the count is 1 before and after it.
\* So a Multi counter whose count is above 1 is still Multi after any step.
C13_DemotionAtCountOne ==
    /\ [][(mode = "Multi" /\ mode' = "Single") =>
             /\ cnt = 1
             /\ cnt' = 1
             /\ LiveHandles = 1
             /\ LiveHandles' = 1
             /\ \E t \in Threads : MakeSingleWrite(t) /\ rcs[t] = 1]_vars
    /\ [][(mode = "Multi" /\ cnt > 1) => mode' = "Multi"]_vars

\* C13 witness: the counter has just been demoted by one thread while another
\* thread, whose drop brought the count from 2 down to 1, is still inside
\* that drop.
C13_Witness ==
    /\ last.op = "Rc::unshare"
    /\ last.ret
    /\ last.m0 = "Multi"
    /\ mode = "Single"
    /\ cnt = 1
    /\ \E u \in Threads :
          u # last.t /\ pc[u] = "drop_check" /\ op[u] = "Arc::drop"

\* C14 as stated: the check of the count and the flip of the mode are one
\* step, so the step that makes a Multi counter Single is the step that
\* loads the count.
C14_Original ==
    [][(mode = "Multi" /\ mode' = "Single") =>
          \E t \in Threads : pc[t] = "ms_load"]_vars

\* C14, amended: make_single_threaded checks with a load and flips with a
\* separate write, two steps with other threads' steps between them; the
\* load leaves the mode alone, and the pair still acts as one compare-and-set
\* would: while a thread is between the two no step changes count or mode,
\* and at the write the counter is still Multi with the count the load saw, 1.
C14_LoadThenWriteActsAtomically ==
    [][\A t \in Threads :
          /\ MakeSingleLoad(t) => UNCHANGED <<mode, cnt>>
          /\ (pc[t] = "ms_write" /\ pc'[t] = "ms_write") =>
                 UNCHANGED <<mode, cnt>>
          /\ MakeSingleWrite(t) =>
                 /\ mode = "Multi"
                 /\ cnt = local[t]
                 /\ cnt = chk[t].c
                 /\ cnt = 1
                 /\ cnt' = 1]_vars

\* C14 witness: a thread has loaded the count and not yet written the mode,
\* the counter is still Multi, and another thread is in the middle of a call.
C14_Witness ==
    \E t \in Threads :
        /\ pc[t] = "ms_write"
        /\ mode = "Multi"
        /\ local[t] = 1
        /\ \E u \in Threads : u # t /\ pc[u] = "drop_check"

\* The next step of thread t's call is an unsynchronized access to the
\* counter storage: the get or the set of the Cell in Single mode, or the
\* rewrite of the whole Count by a promotion or a demotion.
UnsyncAccessNext(t) ==
    pc[t] \in {"inc_s_get", "inc_s_set", "dec_s_get", "dec_s_set",
               "mm_write", "ms_write"}

\* The next step of thread t's call drops the Box, counter included.
FreeNext(t) == pc[t] \in {"dec_fence", "drop_check"} /\ local[t] = 0

\* Thread t holds a handle, through which it can start a call that reads the
\* mode tag.
HoldsHandle(t) == rcs[t] + arcs[t] > 0

PendingClones ==
    SumOver([t \in Threads |-> IF pc[t] = "inc_check" THEN 1 ELSE 0], Threads)

\* C16: the count is the number of live owning handles, Rc and Arc together,
\* in either mode: in every state of a live block it is the live handles plus
\* the clones that have incremented and not yet returned, so with no call in
\* progress it is the live handles exactly. The increment of a clone adds 1,
\* the decrement of a drop subtracts 1 from a count that is at least 1 (no
\* underflow), and a promotion or a demotion leaves the count as it was.
C16_CountIsLiveHandles ==
    /\ [](blk = "live" =>
             /\ cnt = LiveHandles + PendingClones
             /\ AllIdle => cnt = LiveHandles
             /\ LiveHandles > 0 => cnt >= 1
             /\ \A t \in Threads :
                   pc[t] \in {"dec_s_get", "dec_s_set", "dec_m_fsub"} => cnt >= 1)
    /\ [][\A t \in Threads :
             /\ (IncSingleSet(t) \/ IncMultiFetchAdd(t)) => cnt' = cnt + 1
             /\ (DecSingleSet(t) \/ DecMultiFetchSub(t)) => cnt' = cnt - 1
             /\ (MakeMultiWrite(t) \/ MakeSingleWrite(t)) =>
                    (cnt' = cnt /\ LiveHandles' = LiveHandles)]_vars

\* C16 witness: no call is in progress on a Multi block that has been cloned
\* and dropped, an Arc on one thread and an Rc on another are live, and the
\* count is the three live handles.
C16_Witness ==
    /\ blk = "live"
    /\ AllIdle
    /\ ~aborted
    /\ mode = "Multi"
    /\ drops >= 1
    /\ cnt = 3
    /\ LiveHandles = 3
    /\ \E t, u \in Threads : t # u /\ arcs[t] > 0 /\ rcs[u] > 0

\* C17: in Multi mode the block is destroyed only by the thread whose
\* fetch_sub produced 0, only after that thread's acquire fence, and only
\* after the release decrement of every other owner has taken effect.
\* The fetch_sub that produces 0 is made when no other thread holds a handle
\* or is still before its own decrement, and it leads to the fence; a thread
\* reaches the test of Rc::drop with the result 0 only through the fence;
\* and the step that frees a Multi block is that test, made by the one thread
\* whose result is 0.
C17_MultiFreeAfterFence ==
    [][\A t \in Threads :
          /\ (DecMultiFetchSub(t) /\ cnt' = 0) =>
                 /\ local'[t] = 0
                 /\ pc'[t] = "dec_fence"
                 /\ LiveHandles' = 0
                 /\ \A u \in Threads \ {t} :
                       /\ ~HoldsHandle(u)
                       /\ InFlight(u) = 0
                       /\ ~FreeNext(u)
          /\ (mode = "Multi" /\ pc[t] # "drop_check" /\ pc'[t] = "drop_check"
                 /\ local'[t] = 0) => DecFence(t)
          /\ (DropCheck(t) /\ FreesBlock /\ mode = "Multi") =>
                 /\ local[t] = 0
                 /\ cnt = 0
                 /\ LiveHandles = 0
                 /\ \A u \in Threads \ {t} :
                       pc[u] \notin {"dec_m_fsub", "dec_fence"} /\ ~FreeNext(u)
          /\ (FreesBlock /\ mode = "Multi") => \E u \in Threads : DropCheck(u)]_vars

\* C17 witness: a Multi block was freed by the drop of an Rc on one thread
\* while another thread, whose fetch_sub left the count at 1, is still inside
\* the drop of its Arc.
C17_Witness ==
    /\ blk = "freed"
    /\ mode = "Multi"
    /\ last.op = "Rc::drop"
    /\ \E u \in Threads \ {last.t} :
          op[u] = "Arc::drop" /\ pc[u] = "drop_check" /\ local[u] = 1

\* Weak fairness of every thread's steps: a thread that is inside a call
\* goes on with it. Which calls a thread makes, and when, is left open.
FairSpec == Spec /\ \A t \in Threads : WF_vars(StepOf(t))

\* Drop has been called on every handle of the live block: no thread holds a
\* handle, and none is inside a call that will hand one back.
AllDropped ==
    /\ blk = "live"
    /\ \A t \in Threads :
          ~HoldsHandle(t) /\ op[t] \notin {"Arc::from_rc", "Arc::new"}

\* C18: under weak fairness of every thread's steps, once every handle of a
\* block has been dropped the block is eventually freed, whatever the mode
\* and whatever promotions and demotions came before. No call waits for
\* another thread: a thread inside a call can always take its next step, and
\* every call that was started returns (or is the clone that aborts).
C18_AllDroppedLeadsToFreed ==
    /\ AllDropped ~> (blk = "freed")
    /\ \A t \in Threads : (~Idle(t)) ~> (Idle(t) \/ aborted)
    /\ [](\A t \in Threads : (~aborted /\ ~Idle(t)) => ENABLED StepOf(t))

\* C18 witness: a block that was shared between two threads and demoted
\* again has been freed, in Single mode, by the drop of its last Rc, while
\* the other thread is still inside the drop it made before the demotion.
C18_Witness ==
    /\ blk = "freed"
    /\ frees = 1
    /\ mode = "Single"
    /\ last.op = "Rc::drop"
    /\ \E u \in Threads \ {last.t} : op[u] = "Arc::drop" /\ pc[u] = "drop_check"

\* Thread t is the only thread that holds a handle of the block, has one in
\* flight, or has an access to the counter pending.
ConfinedTo(t) ==
    \A u \in Threads \ {t} :
        ~HoldsHandle(u) /\ InFlight(u) = 0 /\ ~TouchesBlock(u)

\* C19: while the counter of a live block is in Single mode, all its live
\* handles are held by one and the same thread, and they are Rcs unless that
\* thread is in the middle of a promotion; this is so after a successful
\* demotion too, on whichever thread it was made.
C19_SingleIsThreadConfined ==
    (blk = "live" /\ mode = "Single") =>
        /\ \E t \in Threads : ConfinedTo(t)
        /\ \A t \in Threads : arcs[t] = 0
        /\ \A t \in Threads :
              (last.op = "Rc::unshare" /\ last.t = t /\ last.m0 = "Multi") =>
                  ConfinedTo(t)

\* C19 witness: the block was shared with a second thread, whose Arc::drop is
\* still in progress, and was demoted since; the counter is Single, and the
\* other thread holds all the handles, two Rcs.
C19_Witness ==
    /\ blk = "live"
    /\ mode = "Single"
    /\ cnt = 2
    /\ \E t \in Threads :
          /\ rcs[t] = 2
          /\ ConfinedTo(t)
          /\ \E u \in Threads \ {t} : op[u] = "Arc::drop" /\ pc[u] = "drop_check"

\* C20: in the two-step demotion, once the load has observed 1 no other
\* thread increments, decrements or reads the counter before the write is
\* done. While a thread is between the load and the write, it holds the one
\* live handle, an Rc, the count is the 1 it loaded, and no other thread
\* holds a handle, has an access pending or a clone unfinished; the only
\* step another thread takes meanwhile is the return of a drop that has
\* already decremented. So the write loses no increment: the count it stores
\* as Single is the number of live handles.
C20_NothingBetweenLoadAndWrite ==
    /\ [](\A t \in Threads :
             pc[t] = "ms_write" =>
                 /\ mode = "Multi"
                 /\ local[t] = 1
                 /\ cnt = local[t]
                 /\ LiveHandles = 1
                 /\ PendingClones = 0
                 /\ rcs[t] = 1
                 /\ arcs[t] = 0
                 /\ ConfinedTo(t)
                 /\ \A u \in Threads \ {t} : ~FreeNext(u))
    /\ [][\A t \in Threads :
             /\ (pc[t] = "ms_write" /\ pc'[t] = "ms_write") =>
                    /\ UNCHANGED <<blk, mode, cnt, rcs, arcs>>
                    /\ local'[t] = local[t]
                    /\ \A u \in Threads \ {t} : pc'[u] # pc[u] => DropCheck(u)
             /\ MakeSingleWrite(t) =>
                    /\ mode' = "Single"
                    /\ cnt' = LiveHandles'
                    /\ cnt' = cnt
                    /\ rcs'[t] = cnt']_vars

\* C20 witness: a thread is between the load that observed 1 and the write,
\* and the last call to return was the Arc::drop of another thread.
C20_Witness ==
    \E t \in Threads :
        /\ pc[t] = "ms_write"
        /\ chk[t].c = 1
        /\ chk[t].h = 1
        /\ last.op = "Arc::drop"
        /\ last.t # t
        /\ AllIdle = FALSE
        /\ OthersIdle(t)

=============================================================================
